---- MODULE Spec2Model ----
(***************************************************************************)
(* Model of src/tictactoe.js: the module-level registry `games` and the    *)
(* three operations createGame, addPlayer and makeMove, with the helpers   *)
(* _isPlayerWin and _isDraw.                                               *)
(*                                                                         *)
(* Numbers.  The program's identifiers are JavaScript numbers: a game id   *)
(* is an integer, a player id is gameId + Math.random().  Every number of  *)
(* the model is kept in "ticks" of 1/Scale, so the integer n of the source *)
(* is Num(n) = n * Scale and gameId + Math.random() is Num(gameId) + f for *)
(* a tick count f.  Math.random() lies in [0, 1): f = 0 is the draw 0, and *)
(* f = Scale is a draw so close to 1 that the double sum rounds up to      *)
(* gameId + 1 (1 - 2^-53 added to any gameId >= 1 does).                   *)
(***************************************************************************)
EXTENDS Integers, FiniteSets, Sequences, TLC

VARIABLES
    games,   \* src/tictactoe.js:12  the registry: game id -> game object
    last     \* the last call made on the module, its arguments and its outcome

vars == <<games, last>>

\* ------------------------------------------------------------------ bounds

\* Ticks per unit: the resolution at which Math.random() is drawn.
Scale == 2

\* The accepted moves (marks on all boards together) the shallow
\* specifications explore.
MaxMarks == 1

Num(n) == n * Scale

\* ------------------------------------------------------- program constants

GAME_DOESNT_EXIST == -2
GAME_NOT_STARTED == -3
GAME_ENDED == -4
GAME_ONGOING == -5
PLAYER_DOESNT_EXIST == -6
WRONG_TURN == -7
INVALID_LOCATION == -8

\* if (gameId < 201): the smallest game id addPlayer and makeMove look up
MinGameId == 201

\* players: [-1, -1]: an unassigned player slot
Unassigned == -1

\* activePlayer: 0: the turn order is not fixed yet
NoActivePlayer == 0

\* Array(3).fill(null): an empty cell.  null is no number: the model keeps
\* it as a value no Num(n) and no player id takes.
null == -1000001

Idx == 0..2

\* ------------------------------------------------------------------ helpers

\* The game object createGame stores.
NewGame ==
    [ players      |-> [i \in 0..1 |-> Num(Unassigned)],
      board        |-> [y \in Idx |-> [x \in Idx |-> null]],
      activePlayer |-> Num(NoActivePlayer),
      isEnded      |-> FALSE ]

\* matrix[i][j] of _isPlayerWin: the board with every null replaced by the
\* running counter 1..9 (counter++ precedes the read, row-major).
Matrix(board) ==
    [i \in Idx |-> [j \in Idx |->
        IF board[i][j] = null THEN Num(3 * i + j + 1) ELSE board[i][j]]]

\* _isPlayerWin without its last line: the diagonal (0,2) (1,1) (2,0) is
\* never checked.
_isPlayerWin_NoAntiDiagonal(playerID, board) ==
    LET matrix == Matrix(board)
        row(i) == /\ matrix[i][0] = matrix[i][1]
                  /\ matrix[i][1] = matrix[i][2]
                  /\ matrix[i][2] = playerID
        column(i) == /\ matrix[0][i] = matrix[1][i]
                     /\ matrix[1][i] = matrix[2][i]
                     /\ matrix[2][i] = playerID
    IN  \/ \E i \in Idx : column(i) \/ row(i)
        \/ /\ matrix[0][0] = matrix[1][1]
           /\ matrix[1][1] = matrix[2][2]
           /\ matrix[2][2] = playerID

\* _isPlayerWin without its column test: three in a column is not a win.
_isPlayerWin_NoColumns(playerID, board) ==
    LET matrix == Matrix(board)
        row(i) == /\ matrix[i][0] = matrix[i][1]
                  /\ matrix[i][1] = matrix[i][2]
                  /\ matrix[i][2] = playerID
    IN  \/ \E i \in Idx : row(i)
        \/ /\ matrix[0][0] = matrix[1][1]
           /\ matrix[1][1] = matrix[2][2]
           /\ matrix[2][2] = playerID
        \/ /\ matrix[0][2] = matrix[1][1]
           /\ matrix[1][1] = matrix[2][0]
           /\ matrix[2][0] = playerID

_isPlayerWin(playerID, board) ==
    LET matrix == Matrix(board)
        row(i) == /\ matrix[i][0] = matrix[i][1]
                  /\ matrix[i][1] = matrix[i][2]
                  /\ matrix[i][2] = playerID
        column(i) == /\ matrix[0][i] = matrix[1][i]
                     /\ matrix[1][i] = matrix[2][i]
                     /\ matrix[2][i] = playerID
    IN  \/ \E i \in Idx : column(i) \/ row(i)
        \/ /\ matrix[0][0] = matrix[1][1]
           /\ matrix[1][1] = matrix[2][2]
           /\ matrix[2][2] = playerID
        \/ /\ matrix[0][2] = matrix[1][1]
           /\ matrix[1][1] = matrix[2][0]
           /\ matrix[2][0] = playerID

\* _isDraw with `some` for the inner `every`: a board on which every row
\* has an occupied cell counts as a draw.
_isDraw_SomeCellOfEveryRow(board) ==
    \A y \in Idx : \E x \in Idx : board[y][x] # null

_isDraw(board) ==
    \A y \in Idx : \A x \in Idx : board[y][x] # null

\* What a call leaves behind: the registry, the value returned, and whether
\* the call threw instead of returning (ret is then meaningless, kept 0).
Outcome(gs, ret) == [games |-> gs, ret |-> ret, threw |-> FALSE]
Thrown(gs) == [games |-> gs, ret |-> 0, threw |-> TRUE]

\* games[gameId] = {...} of createGame: a new entry, or the entry replaced.
createGame(gs, gameId) ==
    Outcome([g \in DOMAIN gs \cup {gameId} |->
                IF g = gameId THEN NewGame ELSE gs[g]],
            gameId)

\* addPlayer(gameId), with id = gameId + Math.random() drawn as gameId + f.
\* games[gameId].isEnded of a gameId that is no key of games reads a
\* property of undefined: the call throws a TypeError.
addPlayer(gs, gameId, f) ==
    IF gameId < Num(MinGameId) THEN Outcome(gs, Num(GAME_DOESNT_EXIST))
    ELSE IF gameId \notin DOMAIN gs THEN Thrown(gs)
    ELSE IF gs[gameId].isEnded THEN Outcome(gs, Num(GAME_ENDED))
    ELSE IF gs[gameId].players[0] > 0 /\ gs[gameId].players[1] > 0
         THEN Outcome(gs, Num(GAME_ONGOING))
    ELSE LET id == gameId + f
             slot == IF gs[gameId].players[0] <= 0 THEN 0 ELSE 1
         IN  Outcome([gs EXCEPT ![gameId].players[slot] = id], id)

\* players.includes(playerId)
Includes(players, playerId) == \E i \in DOMAIN players : players[i] = playerId

\* ApplyMove returning playerId, not activePlayer, when the board is full.
ApplyMove_DrawReturnsMover(gs, gameId, playerId, boardX, boardY) ==
    LET g == gs[gameId]
        next == IF g.players[0] = playerId THEN g.players[1] ELSE g.players[0]
        board == [g.board EXCEPT ![boardY][boardX] = playerId]
        moved == [g EXCEPT !.board = board, !.activePlayer = next]
    IN  IF _isPlayerWin(playerId, board) \/ _isDraw(board)
        THEN Outcome([gs EXCEPT ![gameId] = [moved EXCEPT !.isEnded = TRUE]],
                     playerId)
        ELSE Outcome([gs EXCEPT ![gameId] = moved], Num(GAME_ONGOING))

\* The tail of makeMove with the draw test ahead of the win test: a move
\* that fills the board is a draw whether or not it completes a line.
ApplyMove_DrawCheckedFirst(gs, gameId, playerId, boardX, boardY) ==
    LET g == gs[gameId]
        next == IF g.players[0] = playerId THEN g.players[1] ELSE g.players[0]
        board == [g.board EXCEPT ![boardY][boardX] = playerId]
        moved == [g EXCEPT !.board = board, !.activePlayer = next]
    IN  IF _isDraw(board)
        THEN Outcome([gs EXCEPT ![gameId] = [moved EXCEPT !.isEnded = TRUE]],
                     next)
        ELSE IF _isPlayerWin(playerId, board)
        THEN Outcome([gs EXCEPT ![gameId] = [moved EXCEPT !.isEnded = TRUE]],
                     playerId)
        ELSE Outcome([gs EXCEPT ![gameId] = moved], Num(GAME_ONGOING))

\* makeMove from "games[gameId].board[boardY][boardX] = playerId" on: the
\* move is written, the turn passes, and the win and draw checks run.
ApplyMove(gs, gameId, playerId, boardX, boardY) ==
    LET g == gs[gameId]
        next == IF g.players[0] = playerId THEN g.players[1] ELSE g.players[0]
        board == [g.board EXCEPT ![boardY][boardX] = playerId]
        moved == [g EXCEPT !.board = board, !.activePlayer = next]
    IN  IF _isPlayerWin(playerId, board)
        THEN Outcome([gs EXCEPT ![gameId] = [moved EXCEPT !.isEnded = TRUE]],
                     playerId)
        ELSE IF _isDraw(board)
        THEN Outcome([gs EXCEPT ![gameId] = [moved EXCEPT !.isEnded = TRUE]],
                     next)
        ELSE Outcome([gs EXCEPT ![gameId] = moved], Num(GAME_ONGOING))

\* makeMove passing the turn before it looks at the target cell: a move to
\* an occupied cell returns INVALID_LOCATION and the turn has passed.
makeMove_TurnPassesFirst(gs, gameId, playerId, boardX, boardY) ==
    IF gameId < Num(MinGameId) THEN Outcome(gs, Num(GAME_DOESNT_EXIST))
    ELSE IF gameId \notin DOMAIN gs THEN Thrown(gs)
    ELSE IF gs[gameId].isEnded THEN Outcome(gs, Num(GAME_ENDED))
    ELSE IF gs[gameId].players[0] <= 0 \/ gs[gameId].players[1] <= 0
         THEN Outcome(gs, Num(GAME_NOT_STARTED))
    ELSE IF ~Includes(gs[gameId].players, playerId)
         THEN Outcome(gs, Num(PLAYER_DOESNT_EXIST))
    ELSE IF boardX < 0 \/ boardX > 2 \/ boardY < 0 \/ boardY > 2
         THEN Outcome(gs, Num(INVALID_LOCATION))
    ELSE LET fixed == IF gs[gameId].activePlayer = Num(NoActivePlayer)
                      THEN [gs EXCEPT ![gameId].activePlayer =
                                          gs[gameId].players[0]]
                      ELSE gs
             other == IF fixed[gameId].players[0] = playerId
                      THEN fixed[gameId].players[1]
                      ELSE fixed[gameId].players[0]
         IN  IF playerId # fixed[gameId].activePlayer
             THEN Outcome(fixed, Num(WRONG_TURN))
             ELSE IF fixed[gameId].board[boardY][boardX] # null
             THEN Outcome([fixed EXCEPT ![gameId].activePlayer = other],
                          Num(INVALID_LOCATION))
             ELSE ApplyMove(fixed, gameId, playerId, boardX, boardY)

\* makeMove(gameId, playerId, boardX, boardY).  boardX and boardY are the
\* integers of the source (array indices), not ticks.
makeMove(gs, gameId, playerId, boardX, boardY) ==
    IF gameId < Num(MinGameId) THEN Outcome(gs, Num(GAME_DOESNT_EXIST))
    ELSE IF gameId \notin DOMAIN gs THEN Thrown(gs)
    ELSE IF gs[gameId].isEnded THEN Outcome(gs, Num(GAME_ENDED))
    ELSE IF gs[gameId].players[0] <= 0 \/ gs[gameId].players[1] <= 0
         THEN Outcome(gs, Num(GAME_NOT_STARTED))
    ELSE IF ~Includes(gs[gameId].players, playerId)
         THEN Outcome(gs, Num(PLAYER_DOESNT_EXIST))
    ELSE IF boardX < 0 \/ boardX > 2 \/ boardY < 0 \/ boardY > 2
         THEN Outcome(gs, Num(INVALID_LOCATION))
    ELSE LET fixed == IF gs[gameId].activePlayer = Num(NoActivePlayer)
                      THEN [gs EXCEPT ![gameId].activePlayer =
                                          gs[gameId].players[0]]
                      ELSE gs
         IN  IF playerId # fixed[gameId].activePlayer
             THEN Outcome(fixed, Num(WRONG_TURN))
             ELSE IF fixed[gameId].board[boardY][boardX] # null
             THEN Outcome(fixed, Num(INVALID_LOCATION))
             ELSE ApplyMove(fixed, gameId, playerId, boardX, boardY)

\* ------------------------------------------------------------------ actions

\* The record of a call: the operation, its arguments (0 where it has
\* none) and what it returned.
Call(op, gameId, playerId, boardX, boardY, o) ==
    [ op |-> op, gameId |-> gameId, playerId |-> playerId,
      boardX |-> boardX, boardY |-> boardY,
      ret |-> o.ret, threw |-> o.threw ]

\* The cells written on all boards together.
Marks(gs) ==
    Cardinality({c \in (DOMAIN gs) \X Idx \X Idx :
                    gs[c[1]].board[c[2]][c[3]] # null})

Init ==
    /\ games = [g \in {} |-> NewGame]
    /\ last = [ op |-> "none", gameId |-> 0, playerId |-> 0,
                boardX |-> 0, boardY |-> 0, ret |-> 0, threw |-> FALSE ]

\* createGame(), Math.floor(Date.now() * Math.random()) drawn from ids.
CreateGame(ids) ==
    \E gameId \in ids :
        \E o \in {createGame(games, gameId)} :
            /\ games' = o.games
            /\ last' = Call("createGame", 0, 0, 0, 0, o)

\* addPlayer(gameId) for a gameId of gids, Math.random() drawn from fracs.
AddPlayer(gids, fracs) ==
    \E gameId \in gids, f \in fracs :
        \E o \in {addPlayer(games, gameId, f)} :
            /\ games' = o.games
            /\ last' = Call("addPlayer", gameId, 0, 0, 0, o)

\* makeMove(gameId, playerId, boardX, boardY) with the arguments drawn
\* from the given sets, cells being pairs <<boardX, boardY>>.
MakeMove(gids, pids, cells) ==
    \E gameId \in gids, playerId \in pids, c \in cells :
        \E o \in {makeMove(games, gameId, playerId, c[1], c[2])} :
            /\ games' = o.games
            /\ last' = Call("makeMove", gameId, playerId, c[1], c[2], o)

\* MakeMove, explored while at most maxMarks cells are written.
MakeMoveUpTo(gids, pids, cells, maxMarks) ==
    \E gameId \in gids, playerId \in pids, c \in cells :
        \E o \in {makeMove(games, gameId, playerId, c[1], c[2])} :
            /\ Marks(o.games) <= maxMarks
            /\ games' = o.games
            /\ last' = Call("makeMove", gameId, playerId, c[1], c[2], o)

\* -------------------------------------------------------------- play: Spec
\* One game, played to the end: every in-range move of the player ids the
\* game can seat.

PlayGame == Num(MinGameId)
\* the draws of Math.random(): 0 and one tick
PlayFracs == {0, 1}
PlayPlayers == {PlayGame + f : f \in PlayFracs}
InCells == Idx \X Idx

Next ==
    \/ CreateGame({PlayGame})
    \/ AddPlayer({PlayGame}, PlayFracs)
    \/ MakeMove({PlayGame}, PlayPlayers, InCells)

Spec == Init /\ [][Next]_vars

\* -------------------------------------------------------- calls: SpecCalls
\* The same game, with a sample of the calls that name no game, no seated
\* player or no cell of the board.

\* invalidGameId() of the tests: 200, below every id the operations look up
NoGame == Num(MinGameId - 1)
\* makeMove(gameId, 0, 0, 0) of the tests: a player id no game seats
NoPlayer == Num(0)
\* one coordinate out of range, each way
OutCells == {<<-1, 0>>, <<3, 0>>, <<0, -1>>, <<0, 3>>}

NextCalls ==
    \/ CreateGame({PlayGame})
    \/ AddPlayer({NoGame, PlayGame}, PlayFracs)
    \/ MakeMove({PlayGame}, PlayPlayers, InCells \cup OutCells)
    \/ MakeMove({NoGame, PlayGame}, {NoPlayer}, {<<0, 0>>})

SpecCalls == Init /\ [][NextCalls]_vars

\* ------------------------------------------------------------ ids: SpecIds
\* Several games side by side, every id createGame and addPlayer can draw
\* around the threshold 201, and the first moves of each game.

IdsGames == {Num(MinGameId - 1), Num(MinGameId), Num(MinGameId + 1)}
IdsFracs == 0..Scale
IdsPlayers == {g + f : g \in {h \in IdsGames : h >= Num(MinGameId)}, f \in IdsFracs}
IdsCells == {<<1, 1>>}

NextIds ==
    \/ CreateGame(IdsGames)
    \/ AddPlayer(IdsGames, IdsFracs)
    \/ MakeMoveUpTo(IdsGames, IdsPlayers, IdsCells, MaxMarks)

SpecIds == Init /\ [][NextIds]_vars

\* ------------------------------------------------------- fairness: SpecLive
\* The play of Spec with callers that keep calling makeMove: no call of the
\* library blocks or fails to return, so a caller that goes on making moves
\* gets every one of its calls executed.
SpecLive ==
    Init /\ [][Next]_vars /\ WF_vars(MakeMove({PlayGame}, PlayPlayers, InCells))

\* ------------------------------------------------------------------ claims

ErrorCodes ==
    { Num(GAME_DOESNT_EXIST), Num(GAME_ENDED), Num(GAME_ONGOING),
      Num(GAME_NOT_STARTED), Num(PLAYER_DOESNT_EXIST), Num(WRONG_TURN),
      Num(INVALID_LOCATION) }

\* The step is a call of op (last' describes the call the step made).
Called(op) == last'.op = op

\* A player slot that holds a player.
Seated(p) == p # Num(Unassigned)

\* The 8 lines of the board, each a set of cells <<x, y>>.
Lines ==
    {{<<x, y>> : x \in Idx} : y \in Idx}
    \cup {{<<x, y>> : y \in Idx} : x \in Idx}
    \cup {{<<i, i>> : i \in Idx}, {<<i, 2 - i>> : i \in Idx}}

\* Player p holds all three cells of some line of the board.
HasLine(board, p) ==
    \E line \in Lines : \A c \in line : board[c[2]][c[1]] = p

Full(board) == \A c \in InCells : board[c[2]][c[1]] # null

\* The step is an accepted makeMove: the call wrote its cell.
Accepted ==
    /\ Called("makeMove")
    /\ last'.gameId \in DOMAIN games
    /\ last'.boardX \in Idx /\ last'.boardY \in Idx
    /\ games[last'.gameId].board[last'.boardY][last'.boardX] = null
    /\ games'[last'.gameId].board[last'.boardY][last'.boardX] = last'.playerId

\* The player on turn in game g: activePlayer, or players[0] while the turn
\* order is not fixed.
OnTurn(g) ==
    IF g.activePlayer = Num(NoActivePlayer) THEN g.players[0] ELSE g.activePlayer

\* The code the precedence list of C1 gives a makeMove call in the state gs,
\* 0 when no condition of the list holds.
Precedence(gs, gameId, playerId, x, y) ==
    IF gameId \notin DOMAIN gs THEN Num(GAME_DOESNT_EXIST)
    ELSE IF gs[gameId].isEnded THEN Num(GAME_ENDED)
    ELSE IF \E i \in 0..1 : ~Seated(gs[gameId].players[i])
         THEN Num(GAME_NOT_STARTED)
    ELSE IF \A i \in 0..1 : gs[gameId].players[i] # playerId
         THEN Num(PLAYER_DOESNT_EXIST)
    ELSE IF x \notin Idx \/ y \notin Idx THEN Num(INVALID_LOCATION)
    ELSE IF playerId # OnTurn(gs[gameId]) THEN Num(WRONG_TURN)
    ELSE IF gs[gameId].board[y][x] # null THEN Num(INVALID_LOCATION)
    ELSE 0

\* C1: every makeMove call returns the code of the first condition that
\* holds, in the order game does not exist, game ended, game not started,
\* player not seated, coordinate out of range, not the caller's turn, cell
\* occupied.
C1_MakeMovePrecedence ==
    [][ Called("makeMove") =>
          LET want == Precedence(games, last'.gameId, last'.playerId,
                                 last'.boardX, last'.boardY)
          IN  /\ ~last'.threw
              /\ want # 0 => last'.ret = want ]_vars

\* C2: for a game id createGame never returned, addPlayer and makeMove
\* return GAME_DOESNT_EXIST as a value and no game is created or changed.
C2_UnknownGameRejected ==
    [][ (Called("addPlayer") \/ Called("makeMove")) /\ last'.gameId \notin DOMAIN games
          => /\ ~last'.threw
             /\ last'.ret = Num(GAME_DOESNT_EXIST)
             /\ games' = games ]_vars

\* C3: createGame never fails, returns a non-negative id different from the
\* id of every game created before, and leaves every existing game as it is.
C3_CreateGameFresh ==
    [][ Called("createGame") =>
          /\ ~last'.threw
          /\ last'.ret >= 0
          /\ last'.ret \notin DOMAIN games
          /\ \A g \in DOMAIN games : games'[g] = games[g] ]_vars

\* C4: on a game createGame returned, the first two addPlayer calls succeed
\* and return two distinct player ids, the first filling slot 0 and the
\* second slot 1.
C4_FirstTwoPlayersSeated ==
    [][ /\ Called("addPlayer")
        /\ last'.gameId \in DOMAIN games
        /\ ~Seated(games[last'.gameId].players[1])
        => LET before == games[last'.gameId].players
               after == games'[last'.gameId].players
           IN  /\ ~last'.threw
               /\ last'.ret >= 0
               /\ IF ~Seated(before[0])
                  THEN after[0] = last'.ret /\ ~Seated(after[1])
                  ELSE /\ after[0] = before[0]
                       /\ after[1] = last'.ret
                       /\ last'.ret # before[0] ]_vars

\* C5: no seated player id equals a game id, and no player id seated in one
\* game is seated in another; so makeMove on a started game with a player id
\* of another game returns PLAYER_DOESNT_EXIST.
C5_IdsNeverCollide ==
    /\ \A g \in DOMAIN games : \A i \in 0..1 :
          Seated(games[g].players[i]) =>
              /\ games[g].players[i] \notin DOMAIN games
              /\ \A h \in DOMAIN games \ {g} : \A j \in 0..1 :
                    games[h].players[j] # games[g].players[i]
    /\ ( /\ last.op = "makeMove"
         /\ last.gameId \in DOMAIN games
         /\ ~games[last.gameId].isEnded
         /\ \A i \in 0..1 : Seated(games[last.gameId].players[i])
         /\ \E h \in DOMAIN games \ {last.gameId} : \E j \in 0..1 :
               games[h].players[j] = last.playerId )
       => last.ret = Num(PLAYER_DOESNT_EXIST)

\* C6: an accepted move after which the mover holds all three cells of one
\* of the 8 lines returns the mover's id and ends the game; a move after
\* which the mover holds no line, empty cells left, does not end it.
C6_LineWins ==
    [][ Accepted =>
          LET g == games'[last'.gameId]
              P == last'.playerId
          IN  /\ HasLine(g.board, P) => last'.ret = P /\ g.isEnded
              /\ ~HasLine(g.board, P) /\ ~Full(g.board) =>
                    last'.ret = Num(GAME_ONGOING) /\ ~g.isEnded ]_vars

\* C6 happens: a move of one of two different players has completed a line.
C6_Witness ==
    /\ last.op = "makeMove"
    /\ last.gameId \in DOMAIN games
    /\ games[last.gameId].players[0] # games[last.gameId].players[1]
    /\ games[last.gameId].isEnded
    /\ last.ret = last.playerId
    /\ HasLine(games[last.gameId].board, last.playerId)
    /\ ~Full(games[last.gameId].board)

\* C7: an accepted move that fills the ninth cell without completing a line
\* for the mover ends the game and returns the id of the other seated
\* player: not GAME_ONGOING, not the mover's id.
C7_FullBoardIsDraw ==
    [][ Accepted =>
          LET g == games'[last'.gameId]
              P == last'.playerId
          IN  Full(g.board) /\ ~HasLine(g.board, P) =>
                 /\ g.isEnded
                 /\ last'.ret # Num(GAME_ONGOING)
                 /\ last'.ret # P
                 /\ \E i \in 0..1 : g.players[i] = last'.ret ]_vars

\* C7 happens: the last call filled the board, the mover holds no line, and
\* the call returned the other player.
C7_Witness ==
    /\ last.op = "makeMove"
    /\ last.gameId \in DOMAIN games
    /\ Full(games[last.gameId].board)
    /\ ~HasLine(games[last.gameId].board, last.playerId)
    /\ games[last.gameId].isEnded
    /\ last.ret # last.playerId
    /\ \E i \in 0..1 : games[last.gameId].players[i] = last.ret

\* C8: an ended game stays ended: no later operation changes its board,
\* players or activePlayer, and every addPlayer and makeMove on it returns
\* GAME_ENDED.
C8_EndedIsFinal ==
    [][ \A g \in DOMAIN games : games[g].isEnded =>
          /\ games'[g] = games[g]
          /\ (Called("addPlayer") \/ Called("makeMove")) /\ last'.gameId = g
                => ~last'.threw /\ last'.ret = Num(GAME_ENDED) ]_vars

\* The step is an addPlayer or makeMove call that returned an error code
\* (GAME_ONGOING is an error of addPlayer only).
ReturnedError ==
    /\ Called("addPlayer") \/ Called("makeMove")
    /\ ~last'.threw
    /\ last'.ret \in ErrorCodes
    /\ Called("makeMove") => last'.ret # Num(GAME_ONGOING)

\* C9 as stated: a call that returns an error code leaves the stored state
\* of every game unchanged.
C9_ErrorsChangeNothing ==
    [][ ReturnedError => games' = games ]_vars

\* C9 amended: a call that returns an error code leaves board, players and
\* isEnded of every game unchanged, and activePlayer too, except that a
\* makeMove returning WRONG_TURN on a game whose turn order is not fixed yet
\* sets its activePlayer to players[0].
C9_ErrorsKeepBoardPlayersEnded ==
    [][ ReturnedError =>
          /\ DOMAIN games' = DOMAIN games
          /\ \A g \in DOMAIN games :
                /\ games'[g].board = games[g].board
                /\ games'[g].players = games[g].players
                /\ games'[g].isEnded = games[g].isEnded
                /\ \/ games'[g].activePlayer = games[g].activePlayer
                   \/ /\ Called("makeMove") /\ last'.gameId = g
                      /\ last'.ret = Num(WRONG_TURN)
                      /\ games[g].activePlayer = Num(NoActivePlayer)
                      /\ games'[g].activePlayer = games[g].players[0] ]_vars

\* C9 happens: the first move attempt of a started game was made by the
\* player seated second and returned WRONG_TURN; the board is empty and the
\* turn is now fixed to players[0].
C9_Witness ==
    /\ last.op = "makeMove"
    /\ last.ret = Num(WRONG_TURN)
    /\ last.gameId \in DOMAIN games
    /\ \A c \in InCells : games[last.gameId].board[c[2]][c[1]] = null
    /\ games[last.gameId].activePlayer = games[last.gameId].players[0]
    /\ last.playerId = games[last.gameId].players[1]

\* C10: on an existing game addPlayer returns GAME_ENDED if the game has
\* ended, else GAME_ONGOING if both slots are filled, else a new player id;
\* and no seated player id is ever replaced.
C10_AddPlayerOutcome ==
    [][ /\ (Called("addPlayer") /\ last'.gameId \in DOMAIN games) =>
              LET g == games[last'.gameId]
              IN  /\ ~last'.threw
                  /\ IF g.isEnded THEN last'.ret = Num(GAME_ENDED)
                     ELSE IF \A i \in 0..1 : Seated(g.players[i])
                          THEN last'.ret = Num(GAME_ONGOING)
                     ELSE /\ last'.ret >= 0
                          /\ \A i \in 0..1 : g.players[i] # last'.ret
                          /\ \E i \in 0..1 :
                                games'[last'.gameId].players[i] = last'.ret
        /\ \A g \in DOMAIN games : \A i \in 0..1 :
              Seated(games[g].players[i]) =>
                  games'[g].players[i] = games[g].players[i] ]_vars

\* Both player slots of game g hold a player.
Started(g) == \A i \in 0..1 : Seated(g.players[i])

Empty(board) == \A c \in InCells : board[c[2]][c[1]] = null

\* C11: on an existing game with a player slot unassigned, makeMove returns
\* GAME_NOT_STARTED for every playerId, boardX and boardY and changes
\* nothing; the board of a game with a slot unassigned is empty.
C11_NoMoveBeforeStart ==
    [][ /\ ( /\ Called("makeMove")
             /\ last'.gameId \in DOMAIN games
             /\ ~Started(games[last'.gameId]) )
           => /\ ~last'.threw
              /\ last'.ret = Num(GAME_NOT_STARTED)
              /\ games' = games
        /\ \A g \in DOMAIN games' :
              ~Started(games'[g]) => Empty(games'[g].board) ]_vars

\* C12: while no move of a started game has been accepted, a makeMove by
\* the player seated second at an in-range cell returns WRONG_TURN, and the
\* move that is accepted first is made by players[0].
C12_FirstMoveByFirstSeated ==
    [][ ( /\ Called("makeMove")
          /\ last'.gameId \in DOMAIN games
          /\ Started(games[last'.gameId])
          /\ ~games[last'.gameId].isEnded
          /\ Empty(games[last'.gameId].board) )
        => /\ ( /\ last'.playerId = games[last'.gameId].players[1]
                /\ last'.boardX \in Idx /\ last'.boardY \in Idx )
              => last'.ret = Num(WRONG_TURN)
           /\ Accepted => last'.playerId = games[last'.gameId].players[0] ]_vars

\* The code the list of result codes (GAME_DOESNT_EXIST, GAME_ENDED,
\* GAME_NOT_STARTED, PLAYER_DOESNT_EXIST, WRONG_TURN, INVALID_LOCATION)
\* gives a makeMove call on an existing game, 0 when no condition holds.
ListPrecedence(gs, gameId, playerId, x, y) ==
    IF gs[gameId].isEnded THEN Num(GAME_ENDED)
    ELSE IF ~Started(gs[gameId]) THEN Num(GAME_NOT_STARTED)
    ELSE IF \A i \in 0..1 : gs[gameId].players[i] # playerId
         THEN Num(PLAYER_DOESNT_EXIST)
    ELSE IF playerId # OnTurn(gs[gameId]) THEN Num(WRONG_TURN)
    ELSE IF x \notin Idx \/ y \notin Idx THEN Num(INVALID_LOCATION)
    ELSE IF gs[gameId].board[y][x] # null THEN Num(INVALID_LOCATION)
    ELSE 0

\* C13: a makeMove call on an existing game for which several error
\* conditions hold returns the code that comes first in the list of result
\* codes; a seated player who is not on turn gets WRONG_TURN for every
\* boardX and boardY, in range or not.
C13_WrongTurnBeforeLocation ==
    [][ (Called("makeMove") /\ last'.gameId \in DOMAIN games) =>
          LET want == ListPrecedence(games, last'.gameId, last'.playerId,
                                     last'.boardX, last'.boardY)
          IN  want # 0 => ~last'.threw /\ last'.ret = want ]_vars

\* C14: after every accepted move of player P the activePlayer of the game
\* is the other seated player, a player that is not P: the next accepted
\* move is not P's.
C14_MovesAlternate ==
    [][ Accepted =>
          LET g == games'[last'.gameId]
              P == last'.playerId
          IN  /\ P = OnTurn(games[last'.gameId])
              /\ g.activePlayer # P
              /\ \E i \in 0..1 : g.players[i] = g.activePlayer ]_vars

\* C15: a cell that holds a player id holds that id in every later state,
\* and a makeMove of the player on turn at an occupied cell returns
\* INVALID_LOCATION and changes nothing.
C15_BoardMonotonic ==
    [][ /\ \A g \in DOMAIN games : \A c \in InCells :
              games[g].board[c[2]][c[1]] # null =>
                  /\ g \in DOMAIN games'
                  /\ games'[g].board[c[2]][c[1]] = games[g].board[c[2]][c[1]]
        /\ ( /\ Called("makeMove")
             /\ last'.gameId \in DOMAIN games
             /\ Started(games[last'.gameId])
             /\ ~games[last'.gameId].isEnded
             /\ last'.playerId = OnTurn(games[last'.gameId])
             /\ last'.boardX \in Idx /\ last'.boardY \in Idx
             /\ games[last'.gameId].board[last'.boardY][last'.boardX] # null )
           => /\ last'.ret = Num(INVALID_LOCATION)
              /\ games'[last'.gameId].board = games[last'.gameId].board ]_vars

\* A board on which no line can be completed any more: every line holds
\* the ids of both players.
Dead(g) ==
    \A l \in Lines : \A i \in 0..1 : \E c \in l : g.board[c[2]][c[1]] = g.players[i]

MarkCount(board) == Cardinality({c \in InCells : board[c[2]][c[1]] # null})

\* C16: isEnded of a game turns true only in an accepted makeMove on that
\* game after which the mover holds a line or the board is full; an
\* accepted move that leaves an empty cell and no line of the mover returns
\* GAME_ONGOING and leaves the game not ended.
C16_EndsOnlyByLineOrFullBoard ==
    [][ /\ \A g \in DOMAIN games \cap DOMAIN games' :
              (~games[g].isEnded /\ games'[g].isEnded) =>
                  /\ Accepted
                  /\ last'.gameId = g
                  /\ \/ HasLine(games'[g].board, last'.playerId)
                     \/ Full(games'[g].board)
        /\ \A g \in DOMAIN games' \ DOMAIN games : ~games'[g].isEnded
        /\ ( /\ Accepted
             /\ ~Full(games'[last'.gameId].board)
             /\ ~HasLine(games'[last'.gameId].board, last'.playerId) )
           => /\ last'.ret = Num(GAME_ONGOING)
              /\ ~games'[last'.gameId].isEnded ]_vars

\* An accepted move left one cell empty on a board where nobody can
\* complete a line any more, and the game goes on.
C16_Witness ==
    /\ last.op = "makeMove"
    /\ last.ret = Num(GAME_ONGOING)
    /\ last.gameId \in DOMAIN games
    /\ LET g == games[last.gameId]
       IN  /\ ~g.isEnded
           /\ g.players[0] # g.players[1]
           /\ MarkCount(g.board) = 8
           /\ Dead(g)
           /\ g.board[last.boardY][last.boardX] = last.playerId

\* C17: the win test comes before the draw test: an accepted move that
\* fills the ninth cell and completes a line of the mover returns the
\* mover's id and ends the game.
C17_WinBeforeDraw ==
    [][ ( /\ Accepted
          /\ Full(games'[last'.gameId].board)
          /\ HasLine(games'[last'.gameId].board, last'.playerId) )
        => /\ last'.ret = last'.playerId
           /\ games'[last'.gameId].isEnded ]_vars

\* The ninth mark completed a line of the mover, and the mover's id came
\* back.
C17_Witness ==
    /\ last.op = "makeMove"
    /\ last.gameId \in DOMAIN games
    /\ last.ret = last.playerId
    /\ LET g == games[last.gameId]
       IN  /\ g.isEnded
           /\ g.players[0] # g.players[1]
           /\ Full(g.board)
           /\ HasLine(g.board, last.playerId)
           /\ g.activePlayer # last.playerId

\* C18: games are independent: createGame leaves every game that exists
\* unchanged, and addPlayer and makeMove leave every game unchanged except
\* the one their gameId names.
C18_GamesIndependent ==
    [][ \A B \in DOMAIN games :
            (Called("createGame") \/ B # last'.gameId)
                => B \in DOMAIN games' /\ games'[B] = games[B] ]_vars

\* C19: a game that is not ended has an empty cell and no line of a seated
\* player; in every game at most one player holds a line, and every
\* occupied cell holds the id of a seated player of that game.
C19_BoardInvariant ==
    \A g \in DOMAIN games :
        LET G == games[g]
            P == {G.players[i] : i \in 0..1} \ {Num(Unassigned)}
        IN  /\ ~G.isEnded =>
                  /\ ~Full(G.board)
                  /\ \A p \in P : ~HasLine(G.board, p)
            /\ \A p, q \in P :
                  (HasLine(G.board, p) /\ HasLine(G.board, q)) => p = q
            /\ \A c \in InCells :
                  G.board[c[2]][c[1]] # null => G.board[c[2]][c[1]] \in P

\* Eight cells are marked by two different players, nobody holds a line,
\* and the player on turn can still complete one.
C19_Witness ==
    \E g \in DOMAIN games :
        /\ ~games[g].isEnded
        /\ games[g].players[0] # games[g].players[1]
        /\ MarkCount(games[g].board) = 8
        /\ ~Dead(games[g])

\* The player on turn in game g has a cell at which makeMove accepts its move.
HasAcceptedMove(g) ==
    \E c \in InCells :
        LET p == OnTurn(games[g])
            o == makeMove(games, g, p, c[1], c[2])
        IN  /\ ~o.threw
            /\ games[g].board[c[2]][c[1]] = null
            /\ o.games[g].board[c[2]][c[1]] = p

\* C20: every game terminates: a started game that is not ended always has
\* a makeMove call that is accepted, and a game in which accepted moves keep
\* being made is ended at some time.
C20_GameTerminates ==
    /\ [](\A g \in DOMAIN games :
             (Started(games[g]) /\ ~games[g].isEnded) => HasAcceptedMove(g))
    /\ ([]<><<Accepted /\ last'.gameId = PlayGame>>_vars)
           => <>(PlayGame \in DOMAIN games /\ games[PlayGame].isEnded)

====
